---- MODULE Spec2Model ----
(***************************************************************************)
(* Prepaid electricity backend: users, meter devices, rate plans and the   *)
(* unit-purchase transactions, as implemented in app/crud.py and the       *)
(* routers.  The state is the durable content of the relational store;     *)
(* one step is one request handler (or, for the handlers that commit       *)
(* twice, one commit of the handler, no other request running between).    *)
(* Float columns are modelled by integers.                                 *)
(***************************************************************************)
EXTENDS Integers, FiniteSets, Sequences, TLC

\* ---------------------------------------------------------------- bounds
MaxUsers == 3
MaxDevices == 2
MaxRates == 2
MaxTxns == 2
MaxTime == 1
MaxUnits == 2
MaxStatusUpdates == 1
MaxSessions == 2

\* ------------------------------------------------------ program constants
TreasuryId == 3
SeedPrice == 10
SeedAdminBalance == 100
SeedDeviceBalance1 == 50
SeedDeviceBalance2 == 75
max_retries == 3
initial_retry_delay == 1

\* ------------------------------------------------------------ input sets
NoUser == 0
NoDevice == "none"
NoTime == -1

Usernames == {"user1", "user2", "admin"}
SeedUsernames == {"user1", "user2"}
Roles == {"user", "admin"}
UserBalances == {0, SeedAdminBalance}
Prices == {SeedPrice, 2 * SeedPrice}
BadPrices == {0}
NegativePrices == {0 - SeedPrice}
PriceInputs == Prices \cup BadPrices \cup NegativePrices
DeviceBalances == {0, 5}
Units == 1..MaxUnits
FreeUnits == 0..MaxUnits
BadUnits == {-1, 0}
StatusValues == {"pending", "completed", "failed"}
StatusInputs == StatusValues \cup {"bogus"}
UserIds == 1..MaxUsers
UserIdInputs == 1..(MaxUsers + 1)
RateIdInputs == 1..(MaxRates + 1)
TxnIdInputs == 1..(MaxTxns + 1)

MeterId(k) == "MTR000000" \o ToString(k)
MeterIds == {MeterId(k) : k \in 1..MaxDevices}
SeedDeviceIds == {"device-001", "device-002"}
DeviceIdInputs == MeterIds \cup SeedDeviceIds

VARIABLES users, nextUserId, devices, rates, nextRateId, txns, nextTxnId,
          nStatusUpdates, now, req, last, sessions, gen, conn, rateTx

vars == <<users, nextUserId, devices, rates, nextRateId, txns, nextTxnId,
          nStatusUpdates, now, req, last, sessions, gen, conn, rateTx>>

Idle == [pc |-> "idle", op |-> "none", user_id |-> NoUser, txn |-> 0, units |-> 0]

\* a request that runs beside others: what its ORM session has loaded
SessionIds == 1..MaxSessions
NoSession == [pc |-> "idle", user_id |-> NoUser, units |-> 0, rate_id |-> 0, amount |-> 0,
              device_id |-> NoDevice, balance |-> 0, treasury |-> 0, device_balance |-> 0]

\* crud.generate_unique_meter_id at work: the candidate it holds and the
\* candidates it has thrown away
NoGen == [pc |-> "idle", candidate |-> NoDevice, rejected |-> {}]

\* database.get_db serving one request: its locals, the sessions it opened
\* and closed, the sessions it yielded and the delays it slept
NoConn == [pc |-> "idle", retry_count |-> 0, retry_delay |-> initial_retry_delay,
           opened |-> 0, closed |-> 0, yields |-> 0, slept |-> << >>,
           handler_errors |-> 0, raised |-> FALSE]

\* a create_electricity_rate request that runs beside others: the plan it
\* is to insert and the rows its UPDATE statement deactivated
NoRateTx == [pc |-> "idle", price |-> 0, is_active |-> FALSE, deactivated |-> {}]

Result(op, outcome, user_id, txn) ==
    [op |-> op, outcome |-> outcome, user_id |-> user_id, txn |-> txn]

\* ------------------------------------------------------------- queries
get_user_by_username(name) == {u \in DOMAIN users : users[u].username = name}

ActiveRates(rs) == {r \in DOMAIN rs : rs[r].is_active}

\* a lookup that forgets the is_active filter
AnyRate(rs) == DOMAIN rs

\* .first() of the rows matching is_active: any one of them
get_active_electricity_rate(rs) == ActiveRates(rs)

get_user_devices(devs, user_id) == {d \in DOMAIN devs : devs[d].user_id = user_id}

get_user_primary_device(devs, user_id) ==
    {d \in DOMAIN devs : devs[d].user_id = user_id /\ devs[d].is_primary}

UserTransactions(user_id) == {t \in DOMAIN txns : txns[t].user_id = user_id}

\* ------------------------------------------------------------------ Init
Init ==
    /\ users = << >>
    /\ nextUserId = 1
    /\ devices = << >>
    /\ rates = << >>
    /\ nextRateId = 1
    /\ txns = << >>
    /\ nextTxnId = 1
    /\ nStatusUpdates = 0
    /\ now = 0
    /\ req = Idle
    /\ last = Result("init", "ok", NoUser, 0)
    /\ sessions = [s \in SessionIds |-> NoSession]
    /\ gen = NoGen
    /\ conn = NoConn
    /\ rateTx = [s \in SessionIds |-> NoRateTx]

Tick ==
    /\ req.pc = "idle"
    /\ now < MaxTime
    /\ now' = now + 1
    /\ last' = Result("tick", "ok", NoUser, 0)
    /\ UNCHANGED <<users, nextUserId, devices, rates, nextRateId, txns, nextTxnId, nStatusUpdates, req>>
    /\ UNCHANGED <<sessions, gen, conn, rateTx>>

\* ================================================================ get_db
\* a request arrives: the generator starts with fresh locals
get_db_start ==
    /\ conn.pc = "idle"
    /\ conn' = [NoConn EXCEPT !.pc = "loop"]
    /\ last' = Result("get_db", "started", NoUser, 0)
    /\ UNCHANGED <<users, nextUserId, devices, rates, nextRateId, txns, nextTxnId,
                   nStatusUpdates, now, req, sessions, gen, rateTx>>

\* while retry_count < max_retries: db = SessionLocal()
get_db_open ==
    /\ conn.pc = "loop"
    /\ conn.retry_count < max_retries
    /\ conn' = [conn EXCEPT !.pc = "probe", !.opened = @ + 1]
    /\ last' = Result("get_db", "opened", NoUser, 0)
    /\ UNCHANGED <<users, nextUserId, devices, rates, nextRateId, txns, nextTxnId,
                   nStatusUpdates, now, req, sessions, gen, rateTx>>

\* db.execute(text("SELECT 1")), then yield db; a failing probe raises
get_db_probe(ok) ==
    /\ conn.pc = "probe"
    /\ conn' = IF ok THEN [conn EXCEPT !.pc = "yielded", !.yields = @ + 1]
               ELSE [conn EXCEPT !.pc = "except"]
    /\ last' = Result("get_db", IF ok THEN "yielded" ELSE "probe_failed", NoUser, 0)
    /\ UNCHANGED <<users, nextUserId, devices, rates, nextRateId, txns, nextTxnId,
                   nStatusUpdates, now, req, sessions, gen, rateTx>>

\* the request ends well: the generator resumes after the yield, breaks and
\* closes the session in the finally clause
get_db_request_done ==
    /\ conn.pc = "yielded"
    /\ conn.yields = 1
    /\ conn' = [conn EXCEPT !.pc = "idle", !.closed = @ + 1]
    /\ last' = Result("get_db", "done", NoUser, 0)
    /\ UNCHANGED <<users, nextUserId, devices, rates, nextRateId, txns, nextTxnId,
                   nStatusUpdates, now, req, sessions, gen, rateTx>>

\* the handler raises (an HTTPException, say): the exception is thrown into
\* the generator at the yield, inside the try that the except clause covers
get_db_request_failed ==
    /\ conn.pc = "yielded"
    /\ conn.yields = 1
    /\ conn' = [conn EXCEPT !.pc = "except", !.handler_errors = @ + 1]
    /\ last' = Result("get_db", "handler_error", NoUser, 0)
    /\ UNCHANGED <<users, nextUserId, devices, rates, nextRateId, txns, nextTxnId,
                   nStatusUpdates, now, req, sessions, gen, rateTx>>

\* a generator that yields again after an exception was thrown into it is
\* given up by its caller ("generator didn't stop after throw()")
get_db_given_up ==
    /\ conn.pc = "yielded"
    /\ conn.yields > 1
    /\ conn' = [conn EXCEPT !.pc = "idle", !.closed = @ + 1]
    /\ last' = Result("get_db", "given_up", NoUser, 0)
    /\ UNCHANGED <<users, nextUserId, devices, rates, nextRateId, txns, nextTxnId,
                   nStatusUpdates, now, req, sessions, gen, rateTx>>

\* except Exception: count, close, re-raise at the limit, else sleep and
\* double the delay; the finally clause closes the session once more
get_db_except ==
    /\ conn.pc = "except"
    /\ conn' = IF conn.retry_count + 1 >= max_retries
               THEN [conn EXCEPT !.pc = "idle", !.retry_count = @ + 1, !.closed = @ + 1,
                                 !.raised = TRUE]
               ELSE [conn EXCEPT !.pc = "loop", !.retry_count = @ + 1, !.closed = @ + 1,
                                 !.slept = Append(@, conn.retry_delay),
                                 !.retry_delay = @ * 2]
    /\ last' = Result("get_db", "except", NoUser, 0)
    /\ UNCHANGED <<users, nextUserId, devices, rates, nextRateId, txns, nextTxnId,
                   nStatusUpdates, now, req, sessions, gen, rateTx>>

\* ================================================================= users
NewUser(name, role, balance) ==
    [username |-> name, role |-> role, unit_balance |-> balance]

\* register.register_user -> crud.create_user: role USER, balance 0.0 (the
\* router is not mounted by main.py)
register_user(name) ==
    /\ req.pc = "idle"
    /\ IF get_user_by_username(name) # {}
       THEN /\ last' = Result("register_user", "bad_request", NoUser, 0)
            /\ UNCHANGED <<users, nextUserId>>
       ELSE /\ nextUserId <= MaxUsers
            /\ users' = users @@ (nextUserId :> NewUser(name, "user", 0))
            /\ nextUserId' = nextUserId + 1
            /\ last' = Result("register_user", "ok", NoUser, 0)
    /\ UNCHANGED <<devices, rates, nextRateId, txns, nextTxnId, nStatusUpdates, now, req>>
    /\ UNCHANGED <<sessions, gen, conn, rateTx>>

\* POST /admin/users -> crud.admin_create_user
admin_create_user(name, role, balance) ==
    /\ req.pc = "idle"
    /\ IF get_user_by_username(name) # {}
       THEN /\ last' = Result("admin_create_user", "bad_request", NoUser, 0)
            /\ UNCHANGED <<users, nextUserId>>
       ELSE /\ nextUserId <= MaxUsers
            /\ users' = users @@ (nextUserId :> NewUser(name, role, balance))
            /\ nextUserId' = nextUserId + 1
            /\ last' = Result("admin_create_user", "ok", NoUser, 0)
    /\ UNCHANGED <<devices, rates, nextRateId, txns, nextTxnId, nStatusUpdates, now, req>>
    /\ UNCHANGED <<sessions, gen, conn, rateTx>>

\* optional request fields are sets holding zero or one value (exclude_unset)
RolePatches == {{}, {"user"}, {"admin"}, {"bogus"}}
BalancePatches == {{}} \cup {{b} : b \in UserBalances}

Only(S) == CHOOSE x \in S : TRUE

\* PUT /admin/users/{user_id}
update_user(user_id, role, balance) ==
    /\ req.pc = "idle"
    /\ IF user_id \notin DOMAIN users
       THEN /\ last' = Result("update_user", "not_found", NoUser, 0)
            /\ UNCHANGED users
       ELSE IF user_id = TreasuryId /\ role # {} /\ role # {"admin"}
       THEN /\ last' = Result("update_user", "forbidden", NoUser, 0)
            /\ UNCHANGED users
       ELSE IF role # {} /\ Only(role) \notin Roles
       THEN /\ last' = Result("update_user", "bad_request", NoUser, 0)
            /\ UNCHANGED users
       ELSE /\ users' = [users EXCEPT ![user_id] =
                           [@ EXCEPT !.role = IF role = {} THEN @ ELSE Only(role),
                                     !.unit_balance = IF balance = {} THEN @ ELSE Only(balance)]]
            /\ last' = Result("update_user", "ok", NoUser, 0)
    /\ UNCHANGED <<nextUserId, devices, rates, nextRateId, txns, nextTxnId, nStatusUpdates, now, req>>
    /\ UNCHANGED <<sessions, gen, conn, rateTx>>

\* a deletion that takes the user's devices with it
DropDevices(devs, user_id) ==
    [d \in {x \in DOMAIN devs : devs[x].user_id # user_id} |-> devs[d]]

\* devices of a deleted user are detached, never deleted
DetachDevices(devs, user_id) ==
    [d \in DOMAIN devs |->
        IF devs[d].user_id = user_id
        THEN [devs[d] EXCEPT !.user_id = NoUser, !.is_primary = FALSE]
        ELSE devs[d]]

RemoveUser(us, user_id) == [u \in DOMAIN us \ {user_id} |-> us[u]]

\* DELETE /admin/users/{user_id}; transactions.user_id is NOT NULL, so the
\* flush that nulls the user's transactions fails and nothing is committed
delete_user(user_id) ==
    /\ req.pc = "idle"
    /\ IF user_id = TreasuryId
       THEN /\ last' = Result("delete_user", "forbidden", NoUser, 0)
            /\ UNCHANGED <<users, devices>>
       ELSE IF user_id \notin DOMAIN users
       THEN /\ last' = Result("delete_user", "not_found", NoUser, 0)
            /\ UNCHANGED <<users, devices>>
       ELSE IF UserTransactions(user_id) # {}
       THEN /\ last' = Result("delete_user", "integrity_error", NoUser, 0)
            /\ UNCHANGED <<users, devices>>
       ELSE /\ devices' = DetachDevices(devices, user_id)
            /\ users' = RemoveUser(users, user_id)
            /\ last' = Result("delete_user", "ok", NoUser, 0)
    /\ UNCHANGED <<nextUserId, rates, nextRateId, txns, nextTxnId, nStatusUpdates, now, req>>
    /\ UNCHANGED <<sessions, gen, conn, rateTx>>

\* POST /admin/users/bulk-action with action "delete": account 3 is skipped,
\* unknown ids fail, the others are detached from their devices and deleted,
\* all in the one commit at the end, which fails as a whole when one of the
\* users has transactions
DetachAll(devs, ids) ==
    [d \in DOMAIN devs |->
        IF devs[d].user_id \in ids
        THEN [devs[d] EXCEPT !.user_id = NoUser, !.is_primary = FALSE]
        ELSE devs[d]]

bulk_user_action_delete(user_ids) ==
    /\ req.pc = "idle"
    /\ LET targets == (user_ids \ {TreasuryId}) \cap DOMAIN users
       IN  IF \E u \in targets : UserTransactions(u) # {}
           THEN /\ last' = Result("bulk_user_action", "integrity_error", NoUser, 0)
                /\ UNCHANGED <<users, devices>>
           ELSE /\ devices' = DetachAll(devices, targets)
                /\ users' = [u \in DOMAIN users \ targets |-> users[u]]
                /\ last' = Result("bulk_user_action", "ok", NoUser, 0)
    /\ UNCHANGED <<nextUserId, rates, nextRateId, txns, nextTxnId, nStatusUpdates, now, req>>
    /\ UNCHANGED <<sessions, gen, conn, rateTx>>

\* POST /admin/users/bulk: every item reads user.device_id, which
\* AdminUserCreate does not define; the AttributeError is caught per item,
\* so no item creates a user or touches a device
create_users_bulk(names) ==
    /\ req.pc = "idle"
    /\ last' = Result("create_users_bulk", "bad_request", NoUser, 0)
    /\ UNCHANGED <<users, nextUserId, devices, rates, nextRateId, txns, nextTxnId, nStatusUpdates, now, req>>
    /\ UNCHANGED <<sessions, gen, conn, rateTx>>

\* an endpoint that protects no account
NoProtectedAdmin(user_id) == FALSE

\* "if user_id == 3": the main administrator account
IsProtectedAdmin(user_id) == user_id = TreasuryId

\* POST /admin/users/{user_id}/set-admin-role?make_admin=...
set_admin_role(user_id, make_admin) ==
    /\ req.pc = "idle"
    /\ IF user_id \notin DOMAIN users
       THEN /\ last' = Result("set_admin_role", "not_found", NoUser, 0)
            /\ UNCHANGED users
       ELSE IF IsProtectedAdmin(user_id) /\ ~make_admin
       THEN /\ last' = Result("set_admin_role", "forbidden", NoUser, 0)
            /\ UNCHANGED users
       ELSE /\ users' = [users EXCEPT ![user_id].role =
                           IF make_admin THEN "admin" ELSE "user"]
            /\ last' = Result("set_admin_role", "ok", NoUser, 0)
    /\ UNCHANGED <<nextUserId, devices, rates, nextRateId, txns, nextTxnId, nStatusUpdates, now, req>>
    /\ UNCHANGED <<sessions, gen, conn, rateTx>>

BulkRoleActions == {"make_admin", "remove_admin"}

\* POST /admin/users/bulk-action with action "make_admin" or "remove_admin":
\* account 3 is skipped for remove_admin, unknown ids fail, the others get
\* the role, all in the one commit at the end
bulk_user_action_role(user_ids, action) ==
    /\ req.pc = "idle"
    /\ LET skipped == {u \in user_ids : IsProtectedAdmin(u) /\ action = "remove_admin"}
           targets == (user_ids \ skipped) \cap DOMAIN users
       IN  /\ users' = [u \in DOMAIN users |->
                          IF u \in targets
                          THEN [users[u] EXCEPT !.role =
                                  IF action = "make_admin" THEN "admin" ELSE "user"]
                          ELSE users[u]]
           /\ last' = Result("bulk_user_action",
                             IF skipped # {} THEN "skipped" ELSE "ok", NoUser, 0)
    /\ UNCHANGED <<nextUserId, devices, rates, nextRateId, txns, nextTxnId, nStatusUpdates, now, req>>
    /\ UNCHANGED <<sessions, gen, conn, rateTx>>

\* ================================================================= rates
NewRate(price, is_active) == [price_per_unit |-> price, is_active |-> is_active]

\* a creation that leaves the plans already active as they are
KeepAllRates(rs) == rs

\* query(is_active == True).update({"is_active": False})
DeactivateAllRates(rs) == [r \in DOMAIN rs |-> [rs[r] EXCEPT !.is_active = FALSE]]

\* query(id != rate_id, ...).update({"is_active": False})
DeactivateOtherRates(rs, rate_id) ==
    [r \in DOMAIN rs |-> IF r # rate_id THEN [rs[r] EXCEPT !.is_active = FALSE] ELSE rs[r]]

\* crud.create_electricity_rate
CreateRate(rs, id, price, is_active) ==
    (IF is_active THEN DeactivateAllRates(rs) ELSE rs) @@ (id :> NewRate(price, is_active))

\* a schema without the bound on the price
AnyPrice(price) == TRUE

\* ElectricityRateBase and ElectricityRateUpdate: price_per_unit is
\* Field(..., gt=0); a body that fails it is answered 422 before the handler
\* runs
ValidPrice(price) == price > 0

\* POST /admin/rates (ElectricityRateCreate: price_per_unit > 0)
create_electricity_rate(price, is_active) ==
    /\ req.pc = "idle"
    /\ IF ~ValidPrice(price)
       THEN /\ last' = Result("create_electricity_rate", "unprocessable", NoUser, 0)
            /\ UNCHANGED <<rates, nextRateId>>
       ELSE /\ nextRateId <= MaxRates
            /\ rates' = CreateRate(rates, nextRateId, price, is_active)
            /\ nextRateId' = nextRateId + 1
            /\ last' = Result("create_electricity_rate", "ok", NoUser, 0)
    /\ UNCHANGED <<users, nextUserId, devices, txns, nextTxnId, nStatusUpdates, now, req>>
    /\ UNCHANGED <<sessions, gen, conn, rateTx>>

\* POST /add-rate-json: the payload carries no bound on the price, the
\* ElectricityRateCreate built from it does, and its error becomes a 400
add_rate_via_json(price, is_active) ==
    /\ req.pc = "idle"
    /\ IF ~ValidPrice(price)
       THEN /\ last' = Result("add_rate_via_json", "bad_request", NoUser, 0)
            /\ UNCHANGED <<rates, nextRateId>>
       ELSE /\ nextRateId <= MaxRates
            /\ rates' = CreateRate(rates, nextRateId, price, is_active)
            /\ nextRateId' = nextRateId + 1
            /\ last' = Result("add_rate_via_json", "ok", NoUser, 0)
    /\ UNCHANGED <<users, nextUserId, devices, txns, nextTxnId, nStatusUpdates, now, req>>
    /\ UNCHANGED <<sessions, gen, conn, rateTx>>

\* crud.create_electricity_rate beside other requests, up to its UPDATE
\* statement: under READ COMMITTED the statement sees the plans committed
\* when it starts, and deactivates those of them that are active
create_electricity_rate_update(s, price, is_active) ==
    /\ rateTx[s].pc = "idle"
    /\ rateTx' = [rateTx EXCEPT ![s] =
          [pc |-> "updated", price |-> price, is_active |-> is_active,
           deactivated |-> IF is_active THEN ActiveRates(rates) ELSE {}]]
    /\ last' = Result("create_electricity_rate", "updated", NoUser, 0)
    /\ UNCHANGED <<users, nextUserId, devices, rates, nextRateId, txns, nextTxnId,
                   nStatusUpdates, now, req, sessions, gen, conn>>

\* the plans as they are once a request's deactivations are committed
CommitDeactivated(rs, ids) ==
    [r \in DOMAIN rs |-> IF r \in ids THEN [rs[r] EXCEPT !.is_active = FALSE] ELSE rs[r]]

\* the rest of crud.create_electricity_rate: db.add(db_rate); db.commit()
create_electricity_rate_commit(s) ==
    /\ rateTx[s].pc = "updated"
    /\ nextRateId <= MaxRates
    /\ rates' = CommitDeactivated(rates, rateTx[s].deactivated)
                   @@ (nextRateId :> NewRate(rateTx[s].price, rateTx[s].is_active))
    /\ nextRateId' = nextRateId + 1
    /\ rateTx' = [rateTx EXCEPT ![s] = NoRateTx]
    /\ last' = Result("create_electricity_rate", "ok", NoUser, 0)
    /\ UNCHANGED <<users, nextUserId, devices, txns, nextTxnId,
                   nStatusUpdates, now, req, sessions, gen, conn>>

PricePatches == {{}} \cup {{p} : p \in Prices}
ActivePatches == {{}, {TRUE}, {FALSE}}

\* crud.update_electricity_rate: only the supplied fields change
UpdateRate(rs, rate_id, price, is_active) ==
    LET others == IF is_active = {TRUE} THEN DeactivateOtherRates(rs, rate_id) ELSE rs
    IN  [others EXCEPT ![rate_id] =
            [@ EXCEPT !.price_per_unit = IF price = {} THEN @ ELSE Only(price),
                      !.is_active = IF is_active = {} THEN @ ELSE Only(is_active)]]

\* PUT /admin/rates/{rate_id}
update_electricity_rate(rate_id, price, is_active) ==
    /\ req.pc = "idle"
    /\ IF price # {} /\ ~ValidPrice(Only(price))
       THEN /\ last' = Result("update_electricity_rate", "unprocessable", NoUser, 0)
            /\ UNCHANGED rates
       ELSE IF rate_id \notin DOMAIN rates
       THEN /\ last' = Result("update_electricity_rate", "not_found", NoUser, 0)
            /\ UNCHANGED rates
       ELSE /\ rates' = UpdateRate(rates, rate_id, price, is_active)
            /\ last' = Result("update_electricity_rate", "ok", NoUser, 0)
    /\ UNCHANGED <<users, nextUserId, devices, nextRateId, txns, nextTxnId, nStatusUpdates, now, req>>
    /\ UNCHANGED <<sessions, gen, conn, rateTx>>

\* a deletion that does not look at the transactions
RateNeverUsed(rate_id) == FALSE

RateUsed(rate_id) == \E t \in DOMAIN txns : txns[t].rate_id = rate_id

\* a deletion that refuses the active plan only
delete_electricity_rate_if_inactive(rate_id) ==
    /\ req.pc = "idle"
    /\ IF rate_id \notin DOMAIN rates
       THEN /\ last' = Result("delete_electricity_rate", "not_found", NoUser, 0)
            /\ UNCHANGED rates
       ELSE IF rates[rate_id].is_active
       THEN /\ last' = Result("delete_electricity_rate", "bad_request", NoUser, 0)
            /\ UNCHANGED rates
       ELSE /\ rates' = [r \in DOMAIN rates \ {rate_id} |-> rates[r]]
            /\ last' = Result("delete_electricity_rate", "ok", NoUser, 0)
    /\ UNCHANGED <<users, nextUserId, devices, nextRateId, txns, nextTxnId, nStatusUpdates, now, req>>
    /\ UNCHANGED <<sessions, gen, conn, rateTx>>

\* DELETE /admin/rates/{rate_id} -> crud.delete_electricity_rate
delete_electricity_rate(rate_id) ==
    /\ req.pc = "idle"
    /\ IF rate_id \notin DOMAIN rates
       THEN /\ last' = Result("delete_electricity_rate", "not_found", NoUser, 0)
            /\ UNCHANGED rates
       ELSE IF rates[rate_id].is_active \/ RateUsed(rate_id)
       THEN /\ last' = Result("delete_electricity_rate", "bad_request", NoUser, 0)
            /\ UNCHANGED rates
       ELSE /\ rates' = [r \in DOMAIN rates \ {rate_id} |-> rates[r]]
            /\ last' = Result("delete_electricity_rate", "ok", NoUser, 0)
    /\ UNCHANGED <<users, nextUserId, devices, nextRateId, txns, nextTxnId, nStatusUpdates, now, req>>
    /\ UNCHANGED <<sessions, gen, conn, rateTx>>

ActivateRate(rs, rate_id) ==
    [DeactivateOtherRates(rs, rate_id) EXCEPT ![rate_id].is_active = TRUE]

\* PATCH /admin/rates/{rate_id}/activate
activate_electricity_rate(rate_id) ==
    /\ req.pc = "idle"
    /\ IF rate_id \notin DOMAIN rates
       THEN /\ last' = Result("activate_electricity_rate", "not_found", NoUser, 0)
            /\ UNCHANGED rates
       ELSE /\ rates' = ActivateRate(rates, rate_id)
            /\ last' = Result("activate_electricity_rate", "ok", NoUser, 0)
    /\ UNCHANGED <<users, nextUserId, devices, nextRateId, txns, nextTxnId, nStatusUpdates, now, req>>
    /\ UNCHANGED <<sessions, gen, conn, rateTx>>

\* =============================================================== devices
NewDevice(user_id, is_primary, balance) ==
    [user_id |-> user_id, is_primary |-> is_primary, unit_balance |-> balance]

\* query(user_id == user_id, is_primary == True).update({"is_primary": False})
ClearPrimary(devs, user_id) ==
    [d \in DOMAIN devs |->
        IF devs[d].user_id = user_id THEN [devs[d] EXCEPT !.is_primary = FALSE] ELSE devs[d]]

\* the candidates generate_unique_meter_id can return: its loop ends only on
\* an id no device carries
generate_unique_meter_id(devs) == MeterIds \ DOMAIN devs

\* crud.create_device enters generate_unique_meter_id
generate_start ==
    /\ gen.pc = "idle"
    /\ gen' = [pc |-> "loop", candidate |-> NoDevice, rejected |-> {}]
    /\ last' = Result("generate_unique_meter_id", "started", NoUser, 0)
    /\ UNCHANGED <<users, nextUserId, devices, rates, nextRateId, txns, nextTxnId,
                   nStatusUpdates, now, req, sessions, conn, rateTx>>

\* meter_id = f"MTR{random_digits}": any id of the form may come up
generate_draw(c) ==
    /\ gen.pc = "loop"
    /\ gen' = [gen EXCEPT !.pc = "drawn", !.candidate = c]
    /\ last' = Result("generate_unique_meter_id", "drawn", NoUser, 0)
    /\ UNCHANGED <<users, nextUserId, devices, rates, nextRateId, txns, nextTxnId,
                   nStatusUpdates, now, req, sessions, conn, rateTx>>

\* a check that takes the first candidate as it comes
TakeCandidate(devs, c) == TRUE

\* existing_device = get_device_by_id(db, meter_id); if not existing_device
IsFreeId(devs, c) == c \notin DOMAIN devs

\* the lookup: return the candidate, or go round the loop again
generate_check ==
    /\ gen.pc = "drawn"
    /\ gen' = IF IsFreeId(devices, gen.candidate)
              THEN [gen EXCEPT !.pc = "returned"]
              ELSE [gen EXCEPT !.pc = "loop", !.rejected = @ \cup {gen.candidate}]
    /\ last' = Result("generate_unique_meter_id", "checked", NoUser, 0)
    /\ UNCHANGED <<users, nextUserId, devices, rates, nextRateId, txns, nextTxnId,
                   nStatusUpdates, now, req, sessions, conn, rateTx>>

\* the rest of crud.create_device with the id returned; a row that already
\* carries the id fails the insert (device_id is unique)
create_device_returned(is_primary, balance) ==
    /\ gen.pc = "returned"
    /\ gen' = NoGen
    /\ IF gen.candidate \in DOMAIN devices
       THEN /\ last' = Result("create_device", "integrity_error", NoUser, 0)
            /\ UNCHANGED devices
       ELSE /\ devices' = (gen.candidate :> NewDevice(NoUser, is_primary, balance)) @@ devices
            /\ last' = Result("create_device", "ok", NoUser, 0)
    /\ UNCHANGED <<users, nextUserId, rates, nextRateId, txns, nextTxnId,
                   nStatusUpdates, now, req, sessions, conn, rateTx>>

\* crud.create_device; the owner is a foreign key, so an unknown owner fails
\* the insert (the endpoint turns the error into a 400)
CreateDevice(devs, device_id, user_id, is_primary, balance) ==
    LET cleared == IF is_primary /\ user_id # NoUser THEN ClearPrimary(devs, user_id) ELSE devs
    IN  cleared @@ (device_id :> NewDevice(user_id, is_primary, balance))

\* POST /admin/devices
create_device(user_id, is_primary, balance) ==
    /\ req.pc = "idle"
    /\ \E device_id \in generate_unique_meter_id(devices) :
          IF user_id # NoUser /\ user_id \notin DOMAIN users
          THEN /\ last' = Result("create_device", "bad_request", NoUser, 0)
               /\ UNCHANGED devices
          ELSE /\ devices' = CreateDevice(devices, device_id, user_id, is_primary, balance)
               /\ last' = Result("create_device", "ok", NoUser, 0)
    /\ UNCHANGED <<users, nextUserId, rates, nextRateId, txns, nextTxnId, nStatusUpdates, now, req>>
    /\ UNCHANGED <<sessions, gen, conn, rateTx>>

\* crud.assign_device_to_user
crud_assign_device_to_user(devs, device_id, user_id, make_primary) ==
    LET cleared == IF make_primary THEN ClearPrimary(devs, user_id) ELSE devs
    IN  [cleared EXCEPT ![device_id] =
            [@ EXCEPT !.user_id = user_id, !.is_primary = make_primary]]

\* an assign endpoint that does not look at the current owner
assign_device_unchecked(user_id, device_id, make_primary) ==
    /\ req.pc = "idle"
    /\ IF user_id \notin DOMAIN users \/ device_id \notin DOMAIN devices
       THEN /\ last' = Result("assign_device_to_user", "not_found", NoUser, 0)
            /\ UNCHANGED devices
       ELSE /\ devices' = crud_assign_device_to_user(devices, device_id, user_id, make_primary)
            /\ last' = Result("assign_device_to_user", "ok", NoUser, 0)
    /\ UNCHANGED <<users, nextUserId, rates, nextRateId, txns, nextTxnId, nStatusUpdates, now, req>>
    /\ UNCHANGED <<sessions, gen, conn, rateTx>>

\* POST /admin/users/{user_id}/devices, POST /users/{user_id}/devices and
\* the assigning branch of POST /users/{user_id}/register-device
assign_device_to_user(user_id, device_id, make_primary) ==
    /\ req.pc = "idle"
    /\ IF user_id \notin DOMAIN users \/ device_id \notin DOMAIN devices
       THEN /\ last' = Result("assign_device_to_user", "not_found", NoUser, 0)
            /\ UNCHANGED devices
       ELSE IF devices[device_id].user_id # NoUser /\ devices[device_id].user_id # user_id
       THEN /\ last' = Result("assign_device_to_user", "bad_request", NoUser, 0)
            /\ UNCHANGED devices
       ELSE /\ devices' = crud_assign_device_to_user(devices, device_id, user_id, make_primary)
            /\ last' = Result("assign_device_to_user", "ok", NoUser, 0)
    /\ UNCHANGED <<users, nextUserId, rates, nextRateId, txns, nextTxnId, nStatusUpdates, now, req>>
    /\ UNCHANGED <<sessions, gen, conn, rateTx>>

\* POST /admin/users/{user_id}/assign-device: creates the device when the id
\* is unknown, else takes it over; both write the user's balance into it
AdminAssignDevice(devs, device_id, user_id, balance) ==
    IF device_id \notin DOMAIN devs
    THEN devs @@ (device_id :> NewDevice(user_id, FALSE, balance))
    ELSE [devs EXCEPT ![device_id] = [@ EXCEPT !.user_id = user_id, !.unit_balance = balance]]

admin_assign_device_to_user(user_id, device_id) ==
    /\ req.pc = "idle"
    /\ IF user_id \notin DOMAIN users
       THEN /\ last' = Result("admin_assign_device_to_user", "not_found", NoUser, 0)
            /\ UNCHANGED devices
       ELSE IF /\ device_id \in DOMAIN devices
               /\ devices[device_id].user_id # NoUser
               /\ devices[device_id].user_id # user_id
       THEN /\ last' = Result("admin_assign_device_to_user", "bad_request", NoUser, 0)
            /\ UNCHANGED devices
       ELSE /\ devices' = AdminAssignDevice(devices, device_id, user_id, users[user_id].unit_balance)
            /\ last' = Result("admin_assign_device_to_user", "ok", NoUser, 0)
    /\ UNCHANGED <<users, nextUserId, rates, nextRateId, txns, nextTxnId, nStatusUpdates, now, req>>
    /\ UNCHANGED <<sessions, gen, conn, rateTx>>

\* DELETE /admin/devices/{device_id}/user-assignment
unassign_device_from_user(device_id) ==
    /\ req.pc = "idle"
    /\ IF device_id \notin DOMAIN devices
       THEN /\ last' = Result("unassign_device_from_user", "not_found", NoUser, 0)
            /\ UNCHANGED devices
       ELSE IF devices[device_id].user_id = NoUser
       THEN /\ last' = Result("unassign_device_from_user", "bad_request", NoUser, 0)
            /\ UNCHANGED devices
       ELSE /\ devices' = [devices EXCEPT ![device_id] =
                             [@ EXCEPT !.user_id = NoUser, !.is_primary = FALSE]]
            /\ last' = Result("unassign_device_from_user", "ok", NoUser, 0)
    /\ UNCHANGED <<users, nextUserId, rates, nextRateId, txns, nextTxnId, nStatusUpdates, now, req>>
    /\ UNCHANGED <<sessions, gen, conn, rateTx>>

\* crud.make_device_primary
MakePrimary(devs, device_id) ==
    [d \in DOMAIN devs |->
        IF d = device_id THEN [devs[d] EXCEPT !.is_primary = TRUE]
        ELSE IF devs[d].user_id = devs[device_id].user_id
        THEN [devs[d] EXCEPT !.is_primary = FALSE]
        ELSE devs[d]]

\* PUT /admin/devices/{device_id}/make-primary
make_device_primary(device_id) ==
    /\ req.pc = "idle"
    /\ IF device_id \notin DOMAIN devices
       THEN /\ last' = Result("make_device_primary", "not_found", NoUser, 0)
            /\ UNCHANGED devices
       ELSE IF devices[device_id].user_id = NoUser
       THEN /\ last' = Result("make_device_primary", "bad_request", NoUser, 0)
            /\ UNCHANGED devices
       ELSE /\ devices' = MakePrimary(devices, device_id)
            /\ last' = Result("make_device_primary", "ok", NoUser, 0)
    /\ UNCHANGED <<users, nextUserId, rates, nextRateId, txns, nextTxnId, nStatusUpdates, now, req>>
    /\ UNCHANGED <<sessions, gen, conn, rateTx>>

\* ================================================================== setup
\* POST /setup.  Creating user1 or user2 passes device_id to User, which has
\* no such column: the constructor raises and the handler answers 500 with
\* nothing committed.  With both present it adds the admin, an active rate
\* when none is active, and the two seed devices, each when missing.
SeedDevice(devs, device_id, owner, balance) ==
    IF device_id \in DOMAIN devs THEN devs
    ELSE devs @@ (device_id :> NewDevice(owner, FALSE, balance))

seed_initial_data ==
    /\ req.pc = "idle"
    /\ IF get_user_by_username("user1") = {} \/ get_user_by_username("user2") = {}
       THEN /\ last' = Result("seed_initial_data", "server_error", NoUser, 0)
            /\ UNCHANGED <<users, nextUserId, rates, nextRateId, devices>>
       ELSE LET user1 == Only(get_user_by_username("user1"))
                user2 == Only(get_user_by_username("user2"))
                addAdmin == get_user_by_username("admin") = {}
                addRate == get_active_electricity_rate(rates) = {}
            IN  /\ addAdmin => nextUserId <= MaxUsers
                /\ addRate => nextRateId <= MaxRates
                /\ users' = IF addAdmin
                            THEN users @@ (nextUserId :> NewUser("admin", "admin", SeedAdminBalance))
                            ELSE users
                /\ nextUserId' = IF addAdmin THEN nextUserId + 1 ELSE nextUserId
                /\ rates' = IF addRate
                            THEN rates @@ (nextRateId :> NewRate(SeedPrice, TRUE))
                            ELSE rates
                /\ nextRateId' = IF addRate THEN nextRateId + 1 ELSE nextRateId
                /\ devices' = SeedDevice(SeedDevice(devices, "device-001", user1, SeedDeviceBalance1),
                                         "device-002", user2, SeedDeviceBalance2)
                /\ last' = Result("seed_initial_data", "ok", NoUser, 0)
    /\ UNCHANGED <<txns, nextTxnId, nStatusUpdates, now, req>>
    /\ UNCHANGED <<sessions, gen, conn, rateTx>>

\* ========================================================== transactions
TwoDigits(n) == IF n < 10 THEN "0" \o ToString(n) ELSE ToString(n)

\* utcnow().strftime('%Y%m%d%H%M%S'): 14 digits; the clock counts the seconds
\* of one minute
Stamp(t) == "202601010000" \o TwoDigits(t)

\* a reference built from the timestamp alone
TxRefWithoutUser(t, user_id) == "TR-" \o Stamp(t)

\* f"TR-{stamp}-{user_id}"
TxRef(t, user_id) == "TR-" \o Stamp(t) \o "-" \o ToString(user_id)

\* a store without the uniqueness constraint on transaction_reference
RefNeverTaken(ref) == FALSE

\* transaction_reference is unique=True: a commit inserting a second row with
\* the same reference fails
RefTaken(ref) == \E t \in DOMAIN txns : txns[t].transaction_reference = ref

PurchaseAmount(units, price) == units * price

NewTxn(user_id, rate_id, units, amount, ref, status, before, after, device_id, method, completed) ==
    [user_id |-> user_id, rate_id |-> rate_id, units_purchased |-> units,
     amount |-> amount, transaction_reference |-> ref, status |-> status,
     balance_before |-> before, balance_after |-> after, device_id |-> device_id,
     payment_method |-> method, created_at |-> now, completed_at |-> completed]

\* the device a purchase names, or the user's primary device (.first() of the
\* primary devices), or none
ResolveDevice(devs, user_id, device_id) ==
    IF device_id # NoDevice THEN {device_id}
    ELSE IF get_user_primary_device(devs, user_id) = {} THEN {NoDevice}
    ELSE get_user_primary_device(devs, user_id)

\* a device check that forgets the owner
DeviceUnknown(devs, user_id, device_id) ==
    device_id # NoDevice /\ device_id \notin DOMAIN devs

DeviceNotOwned(devs, user_id, device_id) ==
    /\ device_id # NoDevice
    /\ (device_id \notin DOMAIN devs \/ devs[device_id].user_id # user_id)

CreditDevice(devs, device_id, units) ==
    IF device_id = NoDevice \/ device_id \notin DOMAIN devs THEN devs
    ELSE [devs EXCEPT ![device_id].unit_balance = @ + units]

\* a transfer that credits the receiver and forgets to debit the payer
CreditWithoutDebit(us, user_id, delta) ==
    IF delta < 0 THEN us ELSE [us EXCEPT ![user_id].unit_balance = @ + delta]

CreditUser(us, user_id, delta) == [us EXCEPT ![user_id].unit_balance = @ + delta]

\* UnitPurchase.units and JsonPurchase.units: Field(..., gt=0); a body that
\* fails it is answered 422 before the handler runs
ValidUnits(units) == units > 0

\* a rejection raised after a failed row has been committed
RejectPurchaseAfterInsert(op, outcome, user_id) ==
    /\ nextTxnId <= MaxTxns
    /\ txns' = txns @@ (nextTxnId :>
          NewTxn(user_id, 0, 0, 0, "TR-rejected", "failed", 0, 0, NoDevice, "none", NoTime))
    /\ nextTxnId' = nextTxnId + 1
    /\ last' = Result(op, outcome, user_id, 0)
    /\ UNCHANGED <<users, devices, req>>

\* raise HTTPException before anything was added to the session: the
\* session is closed and nothing is committed
RejectPurchase(op, outcome, user_id) ==
    /\ last' = Result(op, outcome, user_id, 0)
    /\ UNCHANGED <<users, devices, txns, nextTxnId, req>>

\* POST /users/buy-units/{user_id}: one commit
buy_units(user_id, units, device_id) ==
    /\ req.pc = "idle"
    /\ IF ~ValidUnits(units)
       THEN RejectPurchase("buy_units", "unprocessable", NoUser)
       ELSE IF user_id \notin DOMAIN users \/ TreasuryId \notin DOMAIN users
       THEN RejectPurchase("buy_units", "not_found", NoUser)
       ELSE IF get_active_electricity_rate(rates) = {}
       THEN RejectPurchase("buy_units", "not_found", NoUser)
       ELSE IF DeviceNotOwned(devices, user_id, device_id)
       THEN RejectPurchase("buy_units", "not_found", NoUser)
       ELSE IF RefTaken(TxRef(now, user_id))
       THEN RejectPurchase("buy_units", "integrity_error", user_id)
       ELSE \E rate \in get_active_electricity_rate(rates) :
            \E dev \in ResolveDevice(devices, user_id, device_id) :
              LET amount == PurchaseAmount(units, rates[rate].price_per_unit)
                  before == users[user_id].unit_balance
              IN  /\ nextTxnId <= MaxTxns
                  /\ txns' = txns @@ (nextTxnId :>
                        NewTxn(user_id, rate, units, amount, TxRef(now, user_id), "completed",
                               before, before - amount, dev, "direct_transfer", now))
                  /\ nextTxnId' = nextTxnId + 1
                  /\ users' = CreditUser(CreditUser(users, TreasuryId, amount), user_id, 0 - amount)
                  /\ devices' = CreditDevice(devices, dev, units)
                  /\ last' = Result("buy_units", "ok", user_id, nextTxnId)
                  /\ UNCHANGED req
    /\ UNCHANGED <<nextUserId, rates, nextRateId, nStatusUpdates, now>>
    /\ UNCHANGED <<sessions, gen, conn, rateTx>>

\* an UPDATE that adds the delta to the stored value
WriteInPlace(stored, loaded, delta) == stored + delta

\* user.unit_balance -= amount on a loaded row: the flush writes the value
\* computed from what the session loaded, whatever the row holds by then
WriteBalance(stored, loaded, delta) == loaded + delta

\* buy_units beside other requests, up to the construction of the
\* transaction: the session loads the user, the treasury account, the active
\* rate and the device (READ COMMITTED, nothing locked)
buy_units_read(s, user_id, units, device_id) ==
    /\ sessions[s].pc = "idle"
    /\ IF ~ValidUnits(units)
       THEN RejectPurchase("buy_units", "unprocessable", NoUser) /\ UNCHANGED sessions
       ELSE IF user_id \notin DOMAIN users \/ TreasuryId \notin DOMAIN users
       THEN RejectPurchase("buy_units", "not_found", NoUser) /\ UNCHANGED sessions
       ELSE IF get_active_electricity_rate(rates) = {}
       THEN RejectPurchase("buy_units", "not_found", NoUser) /\ UNCHANGED sessions
       ELSE IF DeviceNotOwned(devices, user_id, device_id)
       THEN RejectPurchase("buy_units", "not_found", NoUser) /\ UNCHANGED sessions
       ELSE \E rate \in get_active_electricity_rate(rates) :
            \E dev \in ResolveDevice(devices, user_id, device_id) :
              /\ sessions' = [sessions EXCEPT ![s] =
                    [pc |-> "loaded", user_id |-> user_id, units |-> units, rate_id |-> rate,
                     amount |-> PurchaseAmount(units, rates[rate].price_per_unit),
                     device_id |-> dev,
                     balance |-> users[user_id].unit_balance,
                     treasury |-> users[TreasuryId].unit_balance,
                     device_balance |-> IF dev = NoDevice THEN 0 ELSE devices[dev].unit_balance]]
              /\ last' = Result("buy_units", "loaded", NoUser, 0)
              /\ UNCHANGED <<users, devices, txns, nextTxnId, req>>
    /\ UNCHANGED <<nextUserId, rates, nextRateId, nStatusUpdates, now>>
    /\ UNCHANGED <<gen, conn, rateTx>>

\* the rest of buy_units: the row is built with the reference of the current
\* second and everything is written in one commit
buy_units_commit(s) ==
    /\ sessions[s].pc = "loaded"
    /\ sessions' = [sessions EXCEPT ![s] = NoSession]
    /\ LET r == sessions[s]
       IN  IF \/ RefTaken(TxRef(now, r.user_id))
              \/ r.user_id \notin DOMAIN users
              \/ TreasuryId \notin DOMAIN users
              \/ r.rate_id \notin DOMAIN rates
           THEN RejectPurchase("buy_units", "integrity_error", r.user_id)
           ELSE /\ nextTxnId <= MaxTxns
                /\ txns' = txns @@ (nextTxnId :>
                      NewTxn(r.user_id, r.rate_id, r.units, r.amount, TxRef(now, r.user_id),
                             "completed", r.balance, r.balance - r.amount, r.device_id,
                             "direct_transfer", now))
                /\ nextTxnId' = nextTxnId + 1
                /\ users' = IF r.user_id = TreasuryId
                            THEN [users EXCEPT ![TreasuryId].unit_balance =
                                    WriteBalance(@, r.treasury, 0)]
                            ELSE [users EXCEPT
                                    ![TreasuryId].unit_balance = WriteBalance(@, r.treasury, r.amount),
                                    ![r.user_id].unit_balance = WriteBalance(@, r.balance, 0 - r.amount)]
                /\ devices' = IF r.device_id = NoDevice THEN devices
                              ELSE [devices EXCEPT ![r.device_id].unit_balance =
                                      WriteBalance(@, r.device_balance, r.units)]
                /\ last' = Result("buy_units", "ok", r.user_id, nextTxnId)
                /\ UNCHANGED req
    /\ UNCHANGED <<nextUserId, rates, nextRateId, nStatusUpdates, now>>
    /\ UNCHANGED <<gen, conn, rateTx>>

\* crud.create_json_purchase and crud.create_transaction: the row is committed
\* in status pending, balance_after being the balance plus the units
PendingTxn(user_id, rate, units, dev, method) ==
    NewTxn(user_id, rate, units, PurchaseAmount(units, rates[rate].price_per_unit),
           TxRef(now, user_id), "pending", users[user_id].unit_balance,
           users[user_id].unit_balance + units, dev, method, NoTime)

\* POST /users/purchase-json/{user_id}, up to the commit of
\* crud.create_json_purchase
purchase_with_json(user_id, units, device_id) ==
    /\ req.pc = "idle"
    /\ IF ~ValidUnits(units)
       THEN RejectPurchase("purchase_with_json", "unprocessable", NoUser)
       ELSE IF user_id \notin DOMAIN users \/ TreasuryId \notin DOMAIN users
       THEN RejectPurchase("purchase_with_json", "not_found", NoUser)
       ELSE IF get_active_electricity_rate(rates) = {}
       THEN RejectPurchase("purchase_with_json", "not_found", NoUser)
       ELSE IF DeviceNotOwned(devices, user_id, device_id)
       THEN RejectPurchase("purchase_with_json", "not_found", NoUser)
       ELSE IF RefTaken(TxRef(now, user_id))
       THEN RejectPurchase("purchase_with_json", "integrity_error", user_id)
       ELSE \E rate \in get_active_electricity_rate(rates) :
            \E dev \in ResolveDevice(devices, user_id, device_id) :
              /\ nextTxnId <= MaxTxns
              /\ txns' = txns @@ (nextTxnId :>
                            PendingTxn(user_id, rate, units, dev, "direct_transfer"))
              /\ nextTxnId' = nextTxnId + 1
              /\ req' = [pc |-> "created", op |-> "purchase_with_json",
                         user_id |-> user_id, txn |-> nextTxnId, units |-> units]
              /\ last' = Result("purchase_with_json", "created", user_id, nextTxnId)
              /\ UNCHANGED <<users, devices>>
    /\ UNCHANGED <<nextUserId, rates, nextRateId, nStatusUpdates, now>>
    /\ UNCHANGED <<sessions, gen, conn, rateTx>>

\* the rest of purchase_with_json: the second commit
purchase_with_json_complete ==
    /\ req.pc = "created"
    /\ req.op = "purchase_with_json"
    /\ LET t == txns[req.txn]
       IN  \E dev \in ResolveDevice(devices, req.user_id, t.device_id) :
             /\ txns' = [txns EXCEPT ![req.txn] =
                           [@ EXCEPT !.status = "completed", !.completed_at = now]]
             /\ users' = CreditUser(CreditUser(users, TreasuryId, t.amount),
                                    req.user_id, req.units)
             /\ devices' = CreditDevice(devices, dev, req.units)
    /\ req' = Idle
    /\ last' = Result("purchase_with_json", "ok", req.user_id, req.txn)
    /\ UNCHANGED <<nextUserId, rates, nextRateId, nextTxnId, nStatusUpdates, now>>
    /\ UNCHANGED <<sessions, gen, conn, rateTx>>

\* the second commit of purchase_with_json fails (the connection is lost):
\* the session is rolled back and closed, the row committed by
\* crud.create_json_purchase stays pending and no balance changes
purchase_with_json_fail ==
    /\ req.pc = "created"
    /\ req.op = "purchase_with_json"
    /\ req' = Idle
    /\ last' = Result("purchase_with_json", "server_error", req.user_id, req.txn)
    /\ UNCHANGED <<users, devices, txns>>
    /\ UNCHANGED <<nextUserId, rates, nextRateId, nextTxnId, nStatusUpdates, now>>
    /\ UNCHANGED <<sessions, gen, conn, rateTx>>

\* a status update that credits the user and leaves the devices alone
UpdateStatusCreditsUserOnly(db, txn_id, status, primary) ==
    LET t == db.txns[txn_id]
    IN  IF status = "completed"
        THEN [txns |-> [db.txns EXCEPT ![txn_id] =
                          [@ EXCEPT !.status = status, !.completed_at = now]],
              users |-> CreditUser(db.users, t.user_id, t.units_purchased),
              devices |-> db.devices]
        ELSE [txns |-> [db.txns EXCEPT ![txn_id].status = status],
              users |-> db.users,
              devices |-> db.devices]

\* a status update that stamps created_at where completed_at is meant
UpdateStatusStampsCreation(db, txn_id, status, primary) ==
    [txns |-> [db.txns EXCEPT ![txn_id] = [@ EXCEPT !.status = status, !.created_at = now]],
     users |-> db.users,
     devices |-> db.devices]

\* crud.update_transaction_status on an existing row with a valid status:
\* the status is written whatever the old one was, and "completed" credits
\* the user and the transaction's device (or the user's primary device); a
\* transaction whose device row is not found credits nothing
UpdateStatus(db, txn_id, status, primary) ==
    LET t == db.txns[txn_id]
        dev == IF t.device_id # NoDevice THEN t.device_id ELSE primary
    IN  IF status = "completed"
        THEN [txns |-> [db.txns EXCEPT ![txn_id] =
                          [@ EXCEPT !.status = status, !.completed_at = now]],
              users |-> IF t.device_id # NoDevice /\ t.device_id \notin DOMAIN db.devices
                        THEN db.users
                        ELSE CreditUser(db.users, t.user_id, t.units_purchased),
              devices |-> CreditDevice(db.devices, dev, t.units_purchased)]
        ELSE [txns |-> [db.txns EXCEPT ![txn_id].status = status],
              users |-> db.users,
              devices |-> db.devices]

Db == [users |-> users, devices |-> devices, txns |-> txns]

update_transaction_status(txn_id, status) ==
    /\ req.pc = "idle"
    /\ nStatusUpdates < MaxStatusUpdates
    /\ nStatusUpdates' = nStatusUpdates + 1
    /\ IF txn_id \notin DOMAIN txns \/ status \notin StatusValues
       THEN /\ last' = Result("update_transaction_status", "none", NoUser, 0)
            /\ UNCHANGED <<users, devices, txns>>
       ELSE \E primary \in ResolveDevice(devices, txns[txn_id].user_id, NoDevice) :
              LET after == UpdateStatus(Db, txn_id, status, primary)
              IN  /\ users' = after.users
                  /\ devices' = after.devices
                  /\ txns' = after.txns
                  /\ last' = Result("update_transaction_status", "ok",
                                    txns[txn_id].user_id, txn_id)
    /\ UNCHANGED <<nextUserId, rates, nextRateId, nextTxnId, now, req>>
    /\ UNCHANGED <<sessions, gen, conn, rateTx>>

\* whatsapp.buy_electricity_internal, up to the commit of
\* crud.create_transaction; units is an unvalidated float
buy_electricity_internal(device_id, units) ==
    /\ req.pc = "idle"
    /\ IF device_id \notin DOMAIN devices
       THEN RejectPurchase("buy_electricity_internal", "not_found", NoUser)
       ELSE IF devices[device_id].user_id \notin DOMAIN users
       THEN RejectPurchase("buy_electricity_internal", "not_found", NoUser)
       ELSE IF get_active_electricity_rate(rates) = {}
       THEN RejectPurchase("buy_electricity_internal", "not_found", NoUser)
       ELSE IF RefTaken(TxRef(now, devices[device_id].user_id))
       THEN RejectPurchase("buy_electricity_internal", "integrity_error",
                           devices[device_id].user_id)
       ELSE \E rate \in get_active_electricity_rate(rates) :
              LET user_id == devices[device_id].user_id
              IN  /\ nextTxnId <= MaxTxns
                  /\ txns' = txns @@ (nextTxnId :>
                                PendingTxn(user_id, rate, units, device_id, "WhatsApp"))
                  /\ nextTxnId' = nextTxnId + 1
                  /\ req' = [pc |-> "created", op |-> "buy_electricity_internal",
                             user_id |-> user_id, txn |-> nextTxnId, units |-> units]
                  /\ last' = Result("buy_electricity_internal", "created", user_id, nextTxnId)
                  /\ UNCHANGED <<users, devices>>
    /\ UNCHANGED <<nextUserId, rates, nextRateId, nStatusUpdates, now>>
    /\ UNCHANGED <<sessions, gen, conn, rateTx>>

\* the rest of buy_electricity_internal:
\* crud.update_transaction_status(transaction.id, "completed")
buy_electricity_internal_complete ==
    /\ req.pc = "created"
    /\ req.op = "buy_electricity_internal"
    /\ LET after == UpdateStatus(Db, req.txn, "completed", NoDevice)
       IN  /\ users' = after.users
           /\ devices' = after.devices
           /\ txns' = after.txns
    /\ req' = Idle
    /\ last' = Result("buy_electricity_internal", "ok", req.user_id, req.txn)
    /\ UNCHANGED <<nextUserId, rates, nextRateId, nextTxnId, nStatusUpdates, now>>
    /\ UNCHANGED <<sessions, gen, conn, rateTx>>

\* ================================================================== Next
Next ==
    \/ Tick
    \/ \E name \in Usernames : register_user(name)
    \/ \E name \in Usernames, role \in Roles, b \in UserBalances :
          admin_create_user(name, role, b)
    \/ \E u \in UserIdInputs, role \in RolePatches, b \in BalancePatches :
          update_user(u, role, b)
    \/ \E u \in UserIdInputs : delete_user(u)
    \/ \E names \in SUBSET Usernames : create_users_bulk(names)
    \/ \E ids \in SUBSET UserIdInputs : bulk_user_action_delete(ids)
    \/ \E p \in Prices, a \in BOOLEAN : create_electricity_rate(p, a)
    \/ \E p \in Prices \cup BadPrices, a \in BOOLEAN : add_rate_via_json(p, a)
    \/ \E r \in RateIdInputs, p \in PricePatches, a \in ActivePatches :
          update_electricity_rate(r, p, a)
    \/ \E r \in RateIdInputs : delete_electricity_rate(r)
    \/ \E r \in RateIdInputs : activate_electricity_rate(r)
    \/ \E u \in {NoUser} \cup UserIdInputs, pr \in BOOLEAN, b \in DeviceBalances :
          create_device(u, pr, b)
    \/ \E u \in UserIdInputs, d \in DeviceIdInputs, pr \in BOOLEAN :
          assign_device_to_user(u, d, pr)
    \/ \E u \in UserIdInputs, d \in DeviceIdInputs : admin_assign_device_to_user(u, d)
    \/ \E d \in DeviceIdInputs : unassign_device_from_user(d)
    \/ \E d \in DeviceIdInputs : make_device_primary(d)
    \/ seed_initial_data
    \/ \E u \in UserIdInputs, n \in Units, d \in {NoDevice} \cup DeviceIdInputs :
          buy_units(u, n, d)
    \/ \E u \in UserIdInputs, n \in Units, d \in {NoDevice} \cup DeviceIdInputs :
          purchase_with_json(u, n, d)
    \/ purchase_with_json_complete
    \/ \E d \in DeviceIdInputs, n \in FreeUnits : buy_electricity_internal(d, n)
    \/ buy_electricity_internal_complete
    \/ \E t \in TxnIdInputs, st \in StatusInputs : update_transaction_status(t, st)
    \/ \E s \in SessionIds, u \in UserIdInputs, n \in Units, d \in {NoDevice} \cup DeviceIdInputs :
          buy_units_read(s, u, n, d)
    \/ \E s \in SessionIds : buy_units_commit(s)
    \/ generate_start
    \/ \E c \in MeterIds : generate_draw(c)
    \/ generate_check
    \/ \E pr \in BOOLEAN, b \in DeviceBalances : create_device_returned(pr, b)
    \/ get_db_start
    \/ get_db_open
    \/ \E ok \in BOOLEAN : get_db_probe(ok)
    \/ get_db_request_done
    \/ get_db_request_failed
    \/ get_db_given_up
    \/ get_db_except
    \/ \E u \in UserIdInputs, a \in BOOLEAN : set_admin_role(u, a)
    \/ \E ids \in SUBSET UserIdInputs, a \in BulkRoleActions : bulk_user_action_role(ids, a)
    \/ purchase_with_json_fail
    \/ \E s \in SessionIds, p \in Prices, a \in BOOLEAN : create_electricity_rate_update(s, p, a)
    \/ \E s \in SessionIds : create_electricity_rate_commit(s)

Spec == Init /\ [][Next]_vars

\* The rate catalog with what feeds it: the users and the setup that lead to
\* a purchase, and buy_units for the transactions that pin a rate.
NextRates ==
    \/ \E name \in SeedUsernames : admin_create_user(name, "user", 0)
    \/ seed_initial_data
    \/ \E p \in Prices, a \in BOOLEAN : create_electricity_rate(p, a)
    \/ \E p \in Prices \cup BadPrices, a \in BOOLEAN : add_rate_via_json(p, a)
    \/ \E r \in RateIdInputs, p \in PricePatches, a \in ActivePatches :
          update_electricity_rate(r, p, a)
    \/ \E r \in RateIdInputs : delete_electricity_rate(r)
    \/ \E r \in RateIdInputs : activate_electricity_rate(r)
    \/ \E n \in Units : buy_units(TreasuryId, n, NoDevice)

SpecRates == Init /\ [][NextRates]_vars

\* The device directory and the user management that touches it.
NextDevices ==
    \/ \E name \in SeedUsernames : admin_create_user(name, "user", 0)
    \/ \E u \in UserIdInputs, b \in BalancePatches : update_user(u, {}, b)
    \/ \E u \in UserIdInputs : delete_user(u)
    \/ \E names \in SUBSET SeedUsernames : create_users_bulk(names)
    \/ \E ids \in {{1, 2}, {2, TreasuryId}} : bulk_user_action_delete(ids)
    \/ \E u \in {NoUser} \cup UserIdInputs, pr \in BOOLEAN, b \in DeviceBalances :
          create_device(u, pr, b)
    \/ \E u \in UserIdInputs, d \in MeterIds, pr \in BOOLEAN :
          assign_device_to_user(u, d, pr)
    \/ \E u \in UserIdInputs, d \in MeterIds : admin_assign_device_to_user(u, d)
    \/ \E d \in MeterIds : unassign_device_from_user(d)
    \/ \E d \in MeterIds : make_device_primary(d)

SpecDevices == Init /\ [][NextDevices]_vars

\* The transaction engine with what feeds it.
NextPurchase ==
    \/ \E name \in SeedUsernames : admin_create_user(name, "user", 0)
    \/ seed_initial_data
    \/ \E r \in RateIdInputs : update_electricity_rate(r, {2 * SeedPrice}, {FALSE})
    \/ make_device_primary("device-001")
    \/ \E u \in UserIdInputs, d \in {NoDevice} \cup SeedDeviceIds :
          buy_units(u, MaxUnits, d)
    \/ \E u \in UserIdInputs, d \in {NoDevice} \cup SeedDeviceIds :
          purchase_with_json(u, MaxUnits, d)
    \/ purchase_with_json_complete
    \/ \E d \in DeviceIdInputs, n \in {0, MaxUnits} : buy_electricity_internal(d, n)
    \/ buy_electricity_internal_complete
    \/ \E t \in TxnIdInputs, st \in StatusInputs : update_transaction_status(t, st)

SpecPurchase == Init /\ [][NextPurchase]_vars

\* The purchase paths over a running clock.
NextRefs ==
    \/ Tick
    \/ \E name \in SeedUsernames : admin_create_user(name, "user", 0)
    \/ seed_initial_data
    \/ \E u \in UserIdInputs, n \in Units : buy_units(u, n, NoDevice)
    \/ \E u \in UserIdInputs, n \in Units : purchase_with_json(u, n, NoDevice)
    \/ purchase_with_json_complete
    \/ \E d \in SeedDeviceIds, n \in Units : buy_electricity_internal(d, n)
    \/ buy_electricity_internal_complete

SpecRefs == Init /\ [][NextRefs]_vars

\* The purchase paths fed with unit counts on both sides of zero.
NextUnits ==
    \/ \E name \in SeedUsernames : admin_create_user(name, "user", 0)
    \/ seed_initial_data
    \/ \E u \in {1, TreasuryId}, n \in BadUnits \cup Units : buy_units(u, n, NoDevice)
    \/ \E u \in {1, TreasuryId}, n \in BadUnits \cup Units : purchase_with_json(u, n, NoDevice)
    \/ purchase_with_json_complete
    \/ \E d \in SeedDeviceIds, n \in BadUnits \cup Units : buy_electricity_internal(d, n)
    \/ buy_electricity_internal_complete

SpecUnits == Init /\ [][NextUnits]_vars

\* buy_units requests running beside each other, over a running clock.
NextRace ==
    \/ Tick
    \/ \E name \in SeedUsernames : admin_create_user(name, "user", 0)
    \/ seed_initial_data
    \/ make_device_primary("device-001")
    \/ \E s \in SessionIds, u \in {1, 2} : buy_units_read(s, u, MaxUnits, NoDevice)
    \/ \E s \in SessionIds : buy_units_commit(s)

SpecRace == Init /\ [][NextRace]_vars

\* The transaction table under everything that could reach its rows.
NextLedger ==
    \/ Tick
    \/ \E name \in SeedUsernames : admin_create_user(name, "user", 0)
    \/ seed_initial_data
    \/ \E u \in {1, TreasuryId} : buy_units(u, MaxUnits, NoDevice)
    \/ \E t \in TxnIdInputs, st \in StatusInputs : update_transaction_status(t, st)
    \/ \E u \in UserIdInputs : delete_user(u)
    \/ \E r \in RateIdInputs : delete_electricity_rate(r)

SpecLedger == Init /\ [][NextLedger]_vars

\* Device creation with the id generator step by step.  The random choice
\* is fair: an id that can be drawn again and again is drawn at some point.
NextMeter ==
    \/ generate_start
    \/ \E c \in MeterIds : generate_draw(c)
    \/ generate_check
    \/ \E pr \in BOOLEAN, b \in DeviceBalances : create_device_returned(pr, b)
    \/ \E d \in MeterIds : make_device_primary(d)
    \/ \E name \in SeedUsernames : admin_create_user(name, "user", 0)
    \/ \E u \in UserIdInputs, d \in MeterIds : assign_device_to_user(u, d, FALSE)

SpecMeter ==
    /\ Init
    /\ [][NextMeter]_vars
    /\ WF_vars(generate_check)
    /\ \A c \in MeterIds : SF_vars(generate_draw(c))

\* The session dependency serving requests, one after the other, beside the
\* user creation those requests ask for.
NextConn ==
    \/ get_db_start
    \/ get_db_open
    \/ \E ok \in BOOLEAN : get_db_probe(ok)
    \/ get_db_request_done
    \/ get_db_request_failed
    \/ get_db_given_up
    \/ get_db_except
    \/ \E name \in SeedUsernames : admin_create_user(name, "user", 0)
    \/ seed_initial_data

SpecConn == Init /\ [][NextConn]_vars

\* User management by the administrator, around the protected account.
NextAdmin ==
    \/ \E name \in Usernames, role \in Roles : admin_create_user(name, role, 0)
    \/ seed_initial_data
    \/ \E u \in UserIdInputs, role \in RolePatches : update_user(u, role, {})
    \/ \E u \in UserIdInputs : delete_user(u)
    \/ \E ids \in {{1, 2}, {2, TreasuryId}} : bulk_user_action_delete(ids)
    \/ \E u \in UserIdInputs, a \in BOOLEAN : set_admin_role(u, a)
    \/ \E ids \in {{1, 2}, {2, TreasuryId}}, a \in BulkRoleActions :
          bulk_user_action_role(ids, a)

SpecAdmin == Init /\ [][NextAdmin]_vars

\* Status updates on the rows the two-commit purchase paths leave behind.
NextStatus ==
    \/ \E name \in SeedUsernames : admin_create_user(name, "user", 0)
    \/ seed_initial_data
    \/ make_device_primary("device-001")
    \/ \E d \in {NoDevice, "device-001"} : purchase_with_json(1, MaxUnits, d)
    \/ purchase_with_json_complete
    \/ purchase_with_json_fail
    \/ \E d \in SeedDeviceIds : buy_electricity_internal(d, MaxUnits)
    \/ buy_electricity_internal_complete
    \/ \E t \in TxnIdInputs, st \in StatusInputs : update_transaction_status(t, st)

SpecStatus == Init /\ [][NextStatus]_vars

\* create_electricity_rate requests running beside each other.
NextRateRace ==
    \/ \E name \in SeedUsernames : admin_create_user(name, "user", 0)
    \/ seed_initial_data
    \/ \E s \in SessionIds, p \in Prices, a \in BOOLEAN : create_electricity_rate_update(s, p, a)
    \/ \E s \in SessionIds : create_electricity_rate_commit(s)
    \/ \E r \in RateIdInputs : delete_electricity_rate(r)

SpecRateRace == Init /\ [][NextRateRace]_vars

\* The rate catalog fed with prices on both sides of zero, by every endpoint
\* that writes a price.
NextPrices ==
    \/ \E name \in SeedUsernames : admin_create_user(name, "user", 0)
    \/ seed_initial_data
    \/ \E p \in PriceInputs, a \in BOOLEAN : create_electricity_rate(p, a)
    \/ \E p \in PriceInputs, a \in BOOLEAN : add_rate_via_json(p, a)
    \/ \E r \in RateIdInputs, p \in {{}} \cup {{x} : x \in PriceInputs}, a \in ActivePatches :
          update_electricity_rate(r, p, a)
    \/ \E r \in RateIdInputs : delete_electricity_rate(r)

SpecPrices == Init /\ [][NextPrices]_vars

\* ============================================================ properties
PurchaseOps == {"buy_units", "purchase_with_json", "buy_electricity_internal"}

C2_AtMostOnePrimaryPerUser ==
    \A u \in DOMAIN users : Cardinality(get_user_primary_device(devices, u)) <= 1

\* C3: update_transaction_status(id, "completed") on a transaction that is
\* already completed changes no user balance and no device balance.
C3_CompletedIsIdempotent ==
    [][(/\ last'.op = "update_transaction_status"
        /\ last'.outcome = "ok"
        /\ last'.txn \in DOMAIN txns
        /\ txns[last'.txn].status = "completed"
        /\ txns'[last'.txn].status = "completed")
       => UNCHANGED <<users, devices>>]_vars

\* C4: once a transaction's status is completed or failed, no operation
\* changes its status again.
C4_TerminalStatuses ==
    [][\A id \in DOMAIN txns :
          txns[id].status \in {"completed", "failed"}
             => txns'[id].status = txns[id].status]_vars

\* C5: a purchase rejected because the user, the treasury account, the
\* active rate or the named device is missing (or the device is not the
\* user's), on any of the three purchase paths, leaves every user balance,
\* every device balance and the transaction rows as they were.
C5_RejectedPurchaseChangesNothing ==
    [][(last'.op \in PurchaseOps /\ last'.outcome = "not_found")
       => UNCHANGED <<users, devices, txns>>]_vars

\* a purchase was rejected while a completed transaction and its balances
\* were there to be kept
C5_Witness ==
    /\ last.op \in PurchaseOps
    /\ last.outcome = "not_found"
    /\ \E id \in DOMAIN txns : txns[id].status = "completed"
    /\ TreasuryId \in DOMAIN users
    /\ users[TreasuryId].unit_balance # SeedAdminBalance

\* C6: on every purchase path the transaction row and its balance deltas
\* become durable in one commit: no committed state holds the row of a
\* purchase whose deltas are not applied yet.
C6_RowAndDeltasInOneCommit ==
    \A id \in DOMAIN txns : ~(req.pc = "created" /\ req.txn = id)

\* C7: every purchase (by a user other than the treasury account itself)
\* that ends with a completed transaction credits the treasury account by
\* exactly the transaction's amount, on every purchase path.
C7_TreasuryCredited ==
    [][(/\ last'.op \in PurchaseOps
        /\ last'.outcome = "ok"
        /\ last'.txn \in DOMAIN txns'
        /\ txns'[last'.txn].status = "completed"
        /\ txns'[last'.txn].user_id # TreasuryId
        /\ TreasuryId \in DOMAIN users)
       => users'[TreasuryId].unit_balance =
             users[TreasuryId].unit_balance + txns'[last'.txn].amount]_vars

\* C8: every transaction row a purchase path creates carries the id of the
\* rate plan active when the purchase runs, and an amount equal to
\* units_purchased times that plan's price_per_unit.
C8_AmountFromActiveRate ==
    [][\A id \in DOMAIN txns' \ DOMAIN txns :
          \E r \in ActiveRates(rates) :
             /\ txns'[id].rate_id = r
             /\ txns'[id].amount = txns'[id].units_purchased * rates[r].price_per_unit]_vars

\* a purchase ran while an inactive plan with another price was in the
\* catalog, and bought more than one unit
C8_Witness ==
    /\ last.op \in PurchaseOps
    /\ last.outcome \in {"ok", "created"}
    /\ last.txn \in DOMAIN txns
    /\ txns[last.txn].units_purchased > 1
    /\ txns[last.txn].rate_id \in DOMAIN rates
    /\ \E r \in DOMAIN rates :
          /\ ~rates[r].is_active
          /\ rates[r].price_per_unit # rates[txns[last.txn].rate_id].price_per_unit

\* C9: no two transaction rows carry the same transaction_reference, and a
\* purchase is never refused for a reference that a different user's
\* purchase took, even in the same second: the refused purchase's own user
\* has a row created in that second.
C9_ReferencesUnique ==
    /\ \A t1, t2 \in DOMAIN txns :
          t1 # t2 => txns[t1].transaction_reference # txns[t2].transaction_reference
    /\ last.outcome = "integrity_error" /\ last.op \in PurchaseOps
          => \E t \in DOMAIN txns :
                txns[t].user_id = last.user_id /\ txns[t].created_at = now

\* two purchases by different users were recorded in the same second
C9_Witness ==
    \E t1, t2 \in DOMAIN txns :
       /\ txns[t1].user_id # txns[t2].user_id
       /\ txns[t1].created_at = txns[t2].created_at

\* C10: no device-directory or user-management operation (assign device,
\* create device, admin update_user, bulk user creation) changes the
\* unit_balance of a user or a device that already exists.
C10_BalancesOnlyByTransactions ==
    [][(last'.op \in {"assign_device_to_user", "admin_assign_device_to_user",
                      "create_device", "update_user", "create_users_bulk"})
       => /\ \A u \in DOMAIN users \cap DOMAIN users' :
                users'[u].unit_balance = users[u].unit_balance
          /\ \A d \in DOMAIN devices \cap DOMAIN devices' :
                devices'[d].unit_balance = devices[d].unit_balance]_vars

\* C11: a purchase with units <= 0 is rejected on every purchase path
\* without creating a transaction row: no step of any purchase path adds a
\* row whose units_purchased is zero or negative.
C11_NoPurchaseOfNoUnits ==
    [][\A id \in DOMAIN txns' \ DOMAIN txns : txns'[id].units_purchased > 0]_vars

C13_RefusedDeleteKeepsRates ==
    [][(last'.op = "delete_electricity_rate")
       => /\ last'.outcome \in {"bad_request", "not_found"} => rates' = rates
          /\ last'.outcome = "ok"
                => \E r \in DOMAIN rates :
                      /\ ~rates[r].is_active
                      /\ \A t \in DOMAIN txns : txns[t].rate_id # r
                      /\ DOMAIN rates' = DOMAIN rates \ {r}
                      /\ \A q \in DOMAIN rates' : rates'[q] = rates[q]]_vars

\* a deletion was refused while one plan was active and another, inactive
\* one was referenced by a transaction
C13_Witness ==
    /\ last.op = "delete_electricity_rate"
    /\ last.outcome = "bad_request"
    /\ \E r1, r2 \in DOMAIN rates :
          /\ rates[r1].is_active
          /\ ~rates[r2].is_active
          /\ \E t \in DOMAIN txns : txns[t].rate_id = r2

\* C14: once some rate plan has been active, every later create, update,
\* activate or delete call leaves exactly one plan active, so that
\* get_active_electricity_rate returns none only while no plan was ever
\* activated.
C14_ActiveRateStays ==
    [][ActiveRates(rates) # {} => Cardinality(ActiveRates(rates')) = 1]_vars

\* C15: two buy_units requests for the same user can both load the balance
\* before either commits, and then both transactions are completed while the
\* balance holds only one of the two deltas: every buy_units commit stores
\* for the buyer the balance its own request computed (the transaction's
\* balance_after), whatever was committed in between.
C15_CommitWritesLoadedBalance ==
    [][\A id \in DOMAIN txns' \ DOMAIN txns :
          txns'[id].user_id # TreasuryId
             => users'[txns'[id].user_id].unit_balance = txns'[id].balance_after]_vars

\* both purchases of one user are completed, both started from the same
\* balance, and the balance (and the primary device) holds one delta only
C15_Witness ==
    \E t1, t2 \in DOMAIN txns :
       /\ t1 # t2
       /\ txns[t1].user_id = txns[t2].user_id
       /\ txns[t1].user_id # TreasuryId
       /\ txns[t1].status = "completed"
       /\ txns[t2].status = "completed"
       /\ txns[t1].balance_before = txns[t2].balance_before
       /\ txns[t1].amount = txns[t2].amount
       /\ users[txns[t1].user_id].unit_balance = txns[t1].balance_before - txns[t1].amount
       /\ txns[t1].device_id \in DOMAIN devices
       /\ txns[t2].device_id = txns[t1].device_id
       /\ devices[txns[t1].device_id].unit_balance = SeedDeviceBalance1 + txns[t1].units_purchased

\* C16: no transaction row is ever deleted, and once a row exists its
\* user_id, rate_id, units_purchased, amount, transaction_reference,
\* device_id, payment_method and created_at never change, whatever operation
\* runs, user deletion included.
C16_TransactionRowsKeepTheirFacts ==
    [][\A id \in DOMAIN txns :
          /\ id \in DOMAIN txns'
          /\ txns'[id].user_id = txns[id].user_id
          /\ txns'[id].rate_id = txns[id].rate_id
          /\ txns'[id].units_purchased = txns[id].units_purchased
          /\ txns'[id].amount = txns[id].amount
          /\ txns'[id].transaction_reference = txns[id].transaction_reference
          /\ txns'[id].device_id = txns[id].device_id
          /\ txns'[id].payment_method = txns[id].payment_method
          /\ txns'[id].created_at = txns[id].created_at]_vars

\* the deletion of a user was asked for after one of the user's
\* transactions had its status rewritten in a later second
C16_Witness ==
    /\ last.op = "delete_user"
    /\ last.outcome = "integrity_error"
    /\ \E id \in DOMAIN txns :
          /\ txns[id].status = "failed"
          /\ txns[id].created_at < now
          /\ txns[id].user_id # TreasuryId

\* C17: assigning a device owned by one user to a different user is
\* rejected on every assign endpoint and leaves the device (owner, primary
\* flag, balance) as it was; an owned device never gets another owner in one
\* step, it can only become unassigned.
C17_OwnerChangesThroughUnassigned ==
    [][/\ (/\ last'.op \in {"assign_device_to_user", "admin_assign_device_to_user"}
            /\ last'.outcome = "bad_request") => devices' = devices
       /\ \A d \in DOMAIN devices :
             (devices[d].user_id # NoUser /\ devices'[d].user_id # devices[d].user_id)
                => devices'[d].user_id = NoUser]_vars

\* an assignment was refused for a primary device with units on it that
\* another user owns
C17_Witness ==
    /\ last.op \in {"assign_device_to_user", "admin_assign_device_to_user"}
    /\ last.outcome = "bad_request"
    /\ Cardinality(DOMAIN users) >= 2
    /\ \E d \in DOMAIN devices :
          /\ devices[d].user_id \in DOMAIN users
          /\ devices[d].is_primary
          /\ devices[d].unit_balance > 0

\* C18: deleting users (delete_user or the bulk action "delete") detaches
\* every device they owned (no owner, not primary), deletes no device row,
\* changes no device balance and leaves the devices of other users as they
\* were.
C18_DeletionDetachesDevices ==
    [][(last'.op \in {"delete_user", "bulk_user_action"})
       => /\ DOMAIN devices' = DOMAIN devices
          /\ \A d \in DOMAIN devices :
                IF devices[d].user_id \in DOMAIN users \ DOMAIN users'
                THEN devices'[d] = [devices[d] EXCEPT !.user_id = NoUser, !.is_primary = FALSE]
                ELSE devices'[d] = devices[d]]_vars

\* a user was deleted: a device with units on it is left without owner and
\* not primary, while another user still owns a primary device
C18_Witness ==
    /\ last.op \in {"delete_user", "bulk_user_action"}
    /\ last.outcome = "ok"
    /\ Cardinality(DOMAIN users) < nextUserId - 1
    /\ \E d1, d2 \in DOMAIN devices :
          /\ devices[d1].user_id = NoUser
          /\ ~devices[d1].is_primary
          /\ devices[d1].unit_balance > 0
          /\ devices[d2].user_id \in DOMAIN users
          /\ devices[d2].is_primary

\* C19: generate_unique_meter_id returns only an id of the form MTR + 7
\* digits that no device carries, different from every candidate it threw
\* away for being taken, and every thrown-away candidate was taken; under
\* fair random choice the loop ends whenever a free id exists.
C19_GeneratorReturnsFreeId ==
    /\ [](gen.pc = "returned"
             => /\ gen.candidate \in MeterIds
                /\ Len(gen.candidate) = 10
                /\ gen.candidate \notin DOMAIN devices
                /\ gen.candidate \notin gen.rejected)
    /\ [](gen.rejected \subseteq DOMAIN devices)
    /\ ((gen.pc = "loop" /\ MeterIds \ DOMAIN devices # {}) ~> gen.pc = "returned")

\* the first candidate collided and a second, distinct id was returned
C19_Witness ==
    /\ gen.pc = "returned"
    /\ gen.rejected # {}
    /\ gen.candidate \notin gen.rejected

\* C20: get_db opens and probes at most 3 sessions, sleeps 1 and then 2
\* between failed attempts and not after the last, yields at most one
\* session to the request, and raises only after three failed probes.
C20_BoundedRetryOneSession ==
    /\ conn.opened <= max_retries
    /\ conn.slept \in {<< >>, <<1>>, <<1, 2>>}
    /\ conn.yields <= 1
    /\ conn.raised => (conn.retry_count = max_retries /\ conn.handler_errors = 0)

\* C21: an exception the request handler raises while it holds the session
\* yielded by get_db propagates unchanged: from then on get_db counts no
\* retry, sleeps no delay, opens no session and yields no second time.
C21_HandlerErrorsAreNotRetried ==
    [][(conn.handler_errors > 0 /\ conn'.handler_errors > 0)
       => /\ conn'.retry_count = conn.retry_count
          /\ conn'.slept = conn.slept
          /\ conn'.opened = conn.opened
          /\ conn'.yields = conn.yields]_vars

\* C22: the account with id 3, once it exists with role admin, still exists
\* and still has role admin after every admin operation (delete_user,
\* bulk_user_action, set_admin_role, update_user).
C22_MainAdminProtected ==
    [][(TreasuryId \in DOMAIN users /\ users[TreasuryId].role = "admin")
       => (TreasuryId \in DOMAIN users' /\ users'[TreasuryId].role = "admin")]_vars

\* a bulk demotion that named account 3 skipped it and demoted the other
\* account of the batch
C22_Witness ==
    /\ last.op = "bulk_user_action"
    /\ last.outcome = "skipped"
    /\ TreasuryId \in DOMAIN users
    /\ users[TreasuryId].role = "admin"
    /\ \E u \in DOMAIN users \ {TreasuryId} : users[u].role = "user"

\* C23: update_transaction_status to completed on a pending transaction adds
\* units_purchased to the user's balance and to one device, the
\* transaction's device when it has one, else the user's primary device if
\* there is one; a call with another status changes no balance; a call with
\* an unknown id or an invalid status changes nothing.
C23_CompletionCreditsUserAndOneDevice ==
    [][(\/ last'.op = "update_transaction_status"
        \/ last'.op = "buy_electricity_internal" /\ last'.outcome = "ok")
       => /\ last'.outcome = "none" => UNCHANGED <<users, devices, txns>>
          /\ (last'.outcome = "ok" /\ txns'[last'.txn].status # "completed")
                => UNCHANGED <<users, devices>>
          /\ (/\ last'.outcome = "ok"
              /\ txns[last'.txn].status = "pending"
              /\ txns'[last'.txn].status = "completed")
                => LET t == txns[last'.txn]
                       cands == IF t.device_id # NoDevice THEN {t.device_id}
                                ELSE get_user_primary_device(devices, t.user_id)
                   IN  /\ users' = [users EXCEPT
                                      ![t.user_id].unit_balance = @ + t.units_purchased]
                       /\ IF cands = {} THEN devices' = devices
                          ELSE \E c \in cands :
                                  devices' = [devices EXCEPT
                                                ![c].unit_balance = @ + t.units_purchased]]_vars

\* a pending transaction recorded without a device was completed by a status
\* update after its user got a primary device: the user and that device hold
\* the units once
C23_Witness ==
    /\ last.op = "update_transaction_status"
    /\ last.outcome = "ok"
    /\ last.txn \in DOMAIN txns
    /\ txns[last.txn].status = "completed"
    /\ txns[last.txn].device_id = NoDevice
    /\ users[txns[last.txn].user_id].unit_balance = txns[last.txn].units_purchased
    /\ \E d \in get_user_primary_device(devices, txns[last.txn].user_id) :
          devices[d].unit_balance = SeedDeviceBalance1 + txns[last.txn].units_purchased

\* C24: every successful buy_units call conserves money: the buyer's balance
\* goes down by the transaction's amount and the balance of account 3 goes
\* up by it, so their sum is what it was; a purchase by account 3 itself
\* leaves its balance as it was; no other balance changes.
C24_BuyUnitsConservesMoney ==
    [][(last'.op = "buy_units" /\ last'.outcome = "ok")
       => LET t == txns'[last'.txn]
              u == t.user_id
          IN  /\ DOMAIN users' = DOMAIN users
              /\ \A o \in DOMAIN users \ {u, TreasuryId} : users'[o] = users[o]
              /\ IF u = TreasuryId
                 THEN users'[u].unit_balance = users[u].unit_balance
                 ELSE /\ users'[u].unit_balance = users[u].unit_balance - t.amount
                      /\ users'[TreasuryId].unit_balance =
                            users[TreasuryId].unit_balance + t.amount
                      /\ users'[u].unit_balance + users'[TreasuryId].unit_balance =
                            users[u].unit_balance + users[TreasuryId].unit_balance]_vars

\* a user's purchase moved its amount to account 3 after account 3 had made
\* a purchase of its own
C24_Witness ==
    /\ last.op = "buy_units"
    /\ last.outcome = "ok"
    /\ last.txn \in DOMAIN txns
    /\ txns[last.txn].user_id # TreasuryId
    /\ txns[last.txn].amount > 0
    /\ users[txns[last.txn].user_id].unit_balance = 0 - txns[last.txn].amount
    /\ users[TreasuryId].unit_balance = SeedAdminBalance + txns[last.txn].amount
    /\ \E id \in DOMAIN txns : txns[id].user_id = TreasuryId

\* C25: after every successful buy_units or purchase_with_json call, by any
\* user, account 3 included, the transaction's balance_before is the buyer's
\* stored balance before the call and its balance_after is the buyer's
\* stored balance after the commit.
C25_SnapshotsMatchStoredBalance ==
    [][(last'.op \in {"buy_units", "purchase_with_json"} /\ last'.outcome = "ok")
       => LET t == txns'[last'.txn]
          IN  /\ t.balance_before = users[t.user_id].unit_balance
              /\ t.balance_after = users'[t.user_id].unit_balance]_vars

\* C26: the one-active-rate invariant holds under concurrency too: however
\* create_electricity_rate requests interleave their deactivation of the
\* other plans and their write of the new plan, no committed state has two
\* plans with is_active = true.
C26_OneActiveRateUnderConcurrency ==
    \A r1, r2 \in ActiveRates(rates) : r1 = r2

\* C27: a purchase by a user who already has a transaction created in the
\* same second computes the reference that transaction carries, is rejected
\* at commit and leaves the transaction rows, the user balances and the
\* device balances as they were; no purchase adds a second row for the same
\* user and second.
C27_SameSecondPurchaseRejected ==
    [][/\ (last'.op \in {"buy_units", "purchase_with_json"}
              /\ last'.outcome = "integrity_error")
          => /\ UNCHANGED <<users, devices, txns>>
             /\ \E t \in DOMAIN txns :
                   /\ txns[t].user_id = last'.user_id
                   /\ txns[t].transaction_reference = TxRef(now, last'.user_id)
       /\ \A id \in DOMAIN txns' \ DOMAIN txns :
             \A t \in DOMAIN txns :
                txns[t].user_id = txns'[id].user_id
                   => /\ txns[t].created_at # txns'[id].created_at
                      /\ txns[t].transaction_reference # txns'[id].transaction_reference]_vars

\* the second purchase of a user in one second was rejected; the first one
\* is completed and the balance holds its delta alone
C27_Witness ==
    /\ last.op \in {"buy_units", "purchase_with_json"}
    /\ last.outcome = "integrity_error"
    /\ last.user_id # TreasuryId
    /\ Cardinality(DOMAIN txns) = 1
    /\ \E t \in DOMAIN txns :
          /\ txns[t].user_id = last.user_id
          /\ txns[t].created_at = now
          /\ txns[t].status = "completed"
          /\ users[last.user_id].unit_balance = txns[t].balance_after
          /\ users[TreasuryId].unit_balance = SeedAdminBalance + txns[t].amount

\* C28: after any sequence of rate-plan and purchase operations every
\* transaction's rate_id is the id of a plan that still exists.
C28_TransactionsKeepTheirRate ==
    \A t \in DOMAIN txns : txns[t].rate_id \in DOMAIN rates

\* the deletion of a plan was refused although no plan is active: the plan
\* is inactive and a transaction refers to it
C28_Witness ==
    /\ last.op = "delete_electricity_rate"
    /\ last.outcome = "bad_request"
    /\ ActiveRates(rates) = {}
    /\ \E t \in DOMAIN txns : txns[t].rate_id \in DOMAIN rates

\* C29: every stored rate plan has price_per_unit > 0 after any sequence of
\* creations and updates through any endpoint (admin create and update,
\* add_rate_via_json, seed_initial_data), and a creation or update that is
\* rejected changes no rate plan.
C29_StoredPricesArePositive ==
    /\ [](\A r \in DOMAIN rates : rates[r].price_per_unit > 0)
    /\ [][(/\ last'.op \in {"create_electricity_rate", "add_rate_via_json",
                             "update_electricity_rate"}
           /\ last'.outcome \in {"unprocessable", "bad_request"})
          => UNCHANGED <<rates, nextRateId>>]_vars

\* an update was rejected for its price while the catalog held a plan created
\* by seed_initial_data and a plan at another price
C29_Witness ==
    /\ last.op = "update_electricity_rate"
    /\ last.outcome = "unprocessable"
    /\ \E r1, r2 \in DOMAIN rates :
          /\ rates[r1].price_per_unit = SeedPrice
          /\ rates[r2].price_per_unit = 2 * SeedPrice

\* C30: in every reachable state a transaction has completed_at set exactly
\* when its status is completed: pending and failed transactions have none.
C30_CompletedAtIffCompleted ==
    \A t \in DOMAIN txns : (txns[t].completed_at # NoTime) <=> (txns[t].status = "completed")

====
